---------------------------- MODULE Spec2Model ----------------------------
(***************************************************************************)
(* A model of the iMessage viewer (src/src/main.rs): the timestamp         *)
(* conversion `time`, the two store queries of `initial_load` and          *)
(* `load_messages`, the tri-state load slot `Handle<T>` with its mutex,    *)
(* the generic `load` that spawns a background task, and the egui          *)
(* `update` pass that reads the slots and reacts to a row click.           *)
(*                                                                         *)
(* Three specifications share the variables:                               *)
(*   Spec       the running application (main, update passes, tasks)       *)
(*   SpecQuery  the two queries applied to every store of a bounded set    *)
(*   SpecTime   `time` applied to a set of 64-bit raw values               *)
(***************************************************************************)
EXTENDS Integers, Sequences, FiniteSets, TLC

VARIABLES
    store,                   \* the database content (never written)
    chats,                   \* MyEguiApp.chats: the conversation slot
    selected_chat,           \* MyEguiApp.selected_chat: Option<Chat>
    selected_chat_messages,  \* MyEguiApp.selected_chat_messages: the message slot
    lock,                    \* holder of each slot's Mutex
    tasks,                   \* the tasks spawned on the tokio runtime, in spawn order
    pc,                      \* position of the main / UI thread
    frame,                   \* locals of the main / UI thread
    stderr,                  \* what eprintln! has written
    history,                 \* the writes to be and the task ends, in order
    qin,                     \* SpecQuery: the query being applied
    qout,                    \* SpecQuery: its outcome
    raw_in,                  \* SpecTime: the raw value
    dt_out                   \* SpecTime: time(raw_in)

vars == <<store, chats, selected_chat, selected_chat_messages, lock, tasks,
          pc, frame, stderr, history, qin, qout, raw_in, dt_out>>

appvars == <<chats, selected_chat, selected_chat_messages, lock, tasks,
             pc, frame, stderr, history>>

\* Option<T> and a nullable column: None / NULL is <<>>, Some(x) is <<x>>
None == <<>>
Some(x) == <<x>>
NULL == <<>>

(***************************************************************************)
(* 64-bit integers.  TLC's integers are 32 bits wide, so an i64 is kept as *)
(* sign and magnitude in three limbs of nine decimal digits:               *)
(*   value = (neg ? -1 : 1) * (hi * 10^18 + mid * 10^9 + lo)               *)
(* and a second count (an i64 of smaller magnitude) in two limbs:          *)
(*   value = (neg ? -1 : 1) * (hi * 10^9 + lo).                            *)
(* Zero is always written with neg = FALSE.                                *)
(***************************************************************************)
Billion == 1000000000

I64MaxHi == 9
I64MaxMid == 223372036
I64MaxLo == 854775807

I64(neg, hi, mid, lo) == [neg |-> neg, hi |-> hi, mid |-> mid, lo |-> lo]

\* magnitude comparison, limb by limb
MagLeq(a, b) ==
    \/ a.hi < b.hi
    \/ a.hi = b.hi /\ a.mid < b.mid
    \/ a.hi = b.hi /\ a.mid = b.mid /\ a.lo <= b.lo

I64IsZero(a) == a.hi = 0 /\ a.mid = 0 /\ a.lo = 0

\* i64::MIN ..= i64::MAX
InI64(a) ==
    /\ a.hi \in 0..I64MaxHi /\ a.mid \in 0..(Billion - 1) /\ a.lo \in 0..(Billion - 1)
    /\ (I64IsZero(a) => ~a.neg)
    /\ IF a.neg
       THEN MagLeq(a, I64(TRUE, I64MaxHi, I64MaxMid, I64MaxLo + 1))
       ELSE MagLeq(a, I64(FALSE, I64MaxHi, I64MaxMid, I64MaxLo))

\* a <= b on i64 (SQLite's integer ordering)
I64Leq(a, b) ==
    IF a.neg /\ ~b.neg THEN TRUE
    ELSE IF ~a.neg /\ b.neg THEN FALSE
    ELSE IF a.neg THEN MagLeq(b, a)
    ELSE MagLeq(a, b)

Secs(neg, hi, lo) == [neg |-> neg, hi |-> hi, lo |-> lo]

SecsMagLeq(a, b) == a.hi < b.hi \/ (a.hi = b.hi /\ a.lo <= b.lo)

\* a <= b on second counts
SecsLeq(a, b) ==
    IF a.neg /\ ~b.neg THEN TRUE
    ELSE IF ~a.neg /\ b.neg THEN FALSE
    ELSE IF a.neg THEN SecsMagLeq(b, a)
    ELSE SecsMagLeq(a, b)

(***************************************************************************)
(* time (main.rs 104-112)                                                  *)
(***************************************************************************)

\* NaiveDate::from_ymd(y, m, d) as days since 1970-01-01 (proleptic Gregorian)
DaysFromCivil(y, m, d) ==
    LET yy  == IF m <= 2 THEN y - 1 ELSE y
        era == yy \div 400
        yoe == yy - era * 400
        mp  == IF m > 2 THEN m - 3 ELSE m + 9
        doy == (153 * mp + 2) \div 5 + d - 1
        doe == yoe * 365 + yoe \div 4 - yoe \div 100 + doy
    IN  era * 146097 + doe - 719468

\* NaiveDate::from_ymd(2001, 1, 1).and_hms(0, 0, 0).timestamp()
epoch_correction == DaysFromCivil(2001, 1, 1) * 86400 + 0 * 3600 + 0 * 60 + 0

\* raw / 1000000000 on i64: Rust's `/` truncates toward zero, so the quotient
\* is the magnitude without its low limb, with the sign of raw (zero unsigned)
I64DivBillion(raw) ==
    Secs(raw.neg /\ (raw.hi # 0 \/ raw.mid # 0), raw.hi, raw.mid)

\* x + k on i64 for 0 <= k < 10^9 (no limb exceeds 2 * 10^9 - 1 on the way)
SecsAdd(x, k) ==
    IF ~x.neg
    THEN LET s == x.lo + k
         IN  IF s >= Billion THEN Secs(FALSE, x.hi + 1, s - Billion)
                             ELSE Secs(FALSE, x.hi, s)
    ELSE IF x.hi = 0 /\ x.lo <= k THEN Secs(FALSE, 0, k - x.lo)
    ELSE IF x.lo >= k THEN Secs(TRUE, x.hi, x.lo - k)
    ELSE Secs(TRUE, x.hi - 1, (x.lo + Billion) - k)

\* chrono's representable range of NaiveDateTime, as second counts:
\* -262144-01-01T00:00:00 = -8334632851200 and +262143-12-31T23:59:59 = 8210298412799
ChronoMinHi == 8334
ChronoMinLo == 632851200
ChronoMaxHi == 8210
ChronoMaxLo == 298412799

\* the thread panics instead of returning a value
Panic == [panic |-> "invalid or out-of-range datetime"]

\* NaiveDateTime::from_timestamp(secs, nsecs): panics out of range
from_timestamp(secs, nsecs) ==
    IF /\ SecsLeq(Secs(TRUE, ChronoMinHi, ChronoMinLo), secs)
       /\ SecsLeq(secs, Secs(FALSE, ChronoMaxHi, ChronoMaxLo))
       /\ nsecs \in 0..(2 * Billion - 1)
    THEN [secs |-> secs, nanos |-> nsecs]
    ELSE Panic

\* the floor-dividing variant of time
time_floor(raw) ==
    LET q == I64DivBillion(raw)
        f == IF raw.neg /\ raw.lo # 0
             THEN (IF q.lo + 1 = Billion THEN Secs(TRUE, q.hi + 1, 0)
                                         ELSE Secs(TRUE, q.hi, q.lo + 1))
             ELSE q
    IN  from_timestamp(SecsAdd(f, epoch_correction), 0)

\* fn time(raw: i64) -> DateTime<Utc>; and_local_timezone(Utc) is always a
\* single result, so the unwrap never fails
time(raw) ==
    LET seconds == SecsAdd(I64DivBillion(raw), epoch_correction)
    IN  from_timestamp(seconds, 0)


(***************************************************************************)
(* The store: the four tables the queries read.                            *)
(*   message            [ROWID, text, date, handle_id, is_from_me]         *)
(*   chat               [ROWID, chat_identifier]                           *)
(*   chat_message_join  [chat_id, message_id]                              *)
(*   handle             [ROWID, id]                                        *)
(* text and handle_id may be NULL; date is a raw i64.                      *)
(***************************************************************************)

\* the outcome of decoding one column
Decoded(x) == [ok |-> TRUE, val |-> x]
DecodeError == [ok |-> FALSE, err |-> "unexpected null; try decoding as an Option"]

\* a decoder that rejects NULL for a non-Option target
DecodeStringStrict(v) == IF v = NULL THEN DecodeError ELSE Decoded(v[1])

\* query_as::<_, (String, ..)> (main.rs 143, 182) on a TEXT column, with sqlx's
\* SQLite driver: the String is built from the value's bytes, and a NULL value
\* has none, so NULL decodes to the empty string and is not an error
DecodeString(v) == IF v = NULL THEN Decoded("") ELSE Decoded(v[1])

\* the injective sequences over a finite set S
Perms(S) ==
    { f \in [1..Cardinality(S) -> S] :
        \A i, j \in 1..Cardinality(S) : i # j => f[i] # f[j] }

\* from message m join chat_message_join cmj on m.ROWID = cmj.message_id
\*      join chat c on cmj.chat_id = c.ROWID
Joined(db) ==
    { [m |-> m, c |-> c] : m \in db.message, c \in db.chat } \cap
    { r \in [m : db.message, c : db.chat] :
        [chat_id |-> r.c.ROWID, message_id |-> r.m.ROWID] \in db.chat_message_join }

\* left join handle h on m.handle_id = h.ROWID, selecting h.id
HandleId(db, m) ==
    IF \E h \in db.handle : Some(h.ROWID) = m.handle_id
    THEN Some((CHOOSE h \in db.handle : Some(h.ROWID) = m.handle_id).id)
    ELSE NULL

\* the closure of load_messages' map (main.rs 163-171), with the sender
\* taken from the row whatever is_from_me says
MessageOfRowIgnoringFlag(text, timestamp, sender, is_from_me) ==
    [text |-> text, date |-> time(timestamp),
     sender |-> [tag |-> "SomeoneElse", id |-> sender]]

\* the closure of load_messages' map (main.rs 163-171)
MessageOfRow(text, timestamp, sender, is_from_me) ==
    [text |-> text, date |-> time(timestamp),
     sender |-> IF is_from_me THEN [tag |-> "Me"]
                              ELSE [tag |-> "SomeoneElse", id |-> sender]]

\* the rows of load_messages' query for $1 = chat_id, before ordering
MessageRows(db, chat_id) ==
    { r \in Joined(db) : r.c.chat_identifier = chat_id }

\* `order by date desc`
MessageOrdersDesc(db, chat_id) ==
    { s \in Perms(MessageRows(db, chat_id)) :
        \A i, j \in DOMAIN s : i < j => I64Leq(s[j].m.date, s[i].m.date) }

\* `order by date`: every order of the rows in which date never decreases
\* (rows of equal date come in any order)
MessageOrders(db, chat_id) ==
    { s \in Perms(MessageRows(db, chat_id)) :
        \A i, j \in DOMAIN s : i < j => I64Leq(s[i].m.date, s[j].m.date) }

\* fetch_all decodes every row into (String, i64, String, bool)
MessageRowsDecode(db, chat_id) ==
    \A r \in MessageRows(db, chat_id) :
        DecodeString(r.m.text).ok /\ DecodeString(HandleId(db, r.m)).ok

\* the values load_messages' future can produce on success: Vec<Message>
list_messages(db, chat_id) ==
    IF MessageRowsDecode(db, chat_id)
    THEN { [i \in DOMAIN s |->
              MessageOfRow(DecodeString(s[i].m.text).val, s[i].m.date,
                           DecodeString(HandleId(db, s[i].m)).val, s[i].m.is_from_me)] :
           s \in MessageOrders(db, chat_id) }
    ELSE {}

\* group by c.chat_identifier
ChatIdentifiers(db) == { r.c.chat_identifier : r \in Joined(db) }

\* the greatest of a non-empty finite set of i64
I64Max(S) == CHOOSE x \in S : \A y \in S : I64Leq(y, x)

\* max(m.date) of one group
MaxDate(db, name) ==
    I64Max({ r.m.date : r \in { q \in Joined(db) : q.c.chat_identifier = name } })

\* the query without its `group by`: one row per joined message
ChatRowsUngrouped(db) ==
    { [timestamp |-> r.m.date, name |-> r.c.chat_identifier] : r \in Joined(db) }

\* the rows of initial_load's query, before ordering: one per group
ChatRows(db) ==
    { [timestamp |-> MaxDate(db, name), name |-> name] : name \in ChatIdentifiers(db) }

\* `order by max(m.date) desc`: every order in which the maximum never increases
ChatOrders(db) ==
    { s \in Perms(ChatRows(db)) :
        \A i, j \in DOMAIN s : i < j => I64Leq(s[j].timestamp, s[i].timestamp) }

\* the closure of initial_load's map (main.rs 198-201)
ChatOfRow(timestamp, name) == [name |-> name, last_active |-> time(timestamp)]

\* the values initial_load's future can produce on success: Vec<Chat>
list_conversations(db) ==
    { [i \in DOMAIN s |-> ChatOfRow(s[i].timestamp, s[i].name)] : s \in ChatOrders(db) }

(***************************************************************************)
(* The stores the model runs on.                                           *)
(***************************************************************************)
MaxRows == 3     \* message rows in a store of SpecQuery
MaxJoins == 3    \* chat_message_join rows in a store of SpecQuery
MaxClicks == 2   \* row clicks (message loads) in a run of Spec

\* raw dates: two in the same second, one a second later, one before 2001
RawA == I64(FALSE, 0, 700000000, 1)
RawB == I64(FALSE, 0, 700000000, 999999999)
RawC == I64(FALSE, 0, 700000001, 0)
RawN == I64(TRUE, 0, 0, 500000000)

MsgRow(id, text, date, handle_id, is_from_me) ==
    [ROWID |-> id, text |-> text, date |-> date, handle_id |-> handle_id,
     is_from_me |-> is_from_me]

\* candidate message rows: resolvable, NULL and dangling handle_id, NULL text,
\* equal dates
MsgPool ==
    { MsgRow(1, Some("hi"), RawA, Some(1), FALSE),
      MsgRow(2, Some("yo"), RawB, NULL, TRUE),
      MsgRow(3, NULL, RawA, Some(7), FALSE),
      MsgRow(4, Some("old"), RawN, NULL, FALSE),
      MsgRow(5, Some("new"), RawC, Some(1), TRUE),
      MsgRow(6, Some("me"), RawN, Some(7), TRUE) }

\* two chat rows share an identifier
ChatTable ==
    { [ROWID |-> 1, chat_identifier |-> "a"],
      [ROWID |-> 2, chat_identifier |-> "b"],
      [ROWID |-> 3, chat_identifier |-> "a"] }

HandleTable == { [ROWID |-> 1, id |-> "+15550100"] }

\* the identifiers a query is asked for: the store's and one it does not hold
ChatIds == { c.chat_identifier : c \in ChatTable } \cup { "none" }

Db(M, J) ==
    [message |-> M, chat |-> ChatTable, chat_message_join |-> J, handle |-> HandleTable]

JoinPool(M) == [chat_id : { c.ROWID : c \in ChatTable }, message_id : { m.ROWID : m \in M }]

QueryStores ==
    UNION { { Db(M, J) : J \in { Y \in SUBSET JoinPool(M) : Cardinality(Y) <= MaxJoins } } :
            M \in { X \in SUBSET MsgPool : Cardinality(X) <= MaxRows } }

Cmj(c, m) == [chat_id |-> c, message_id |-> m]

\* the stores of Spec: two conversations of different content, holding every
\* kind of row of MsgPool, and an empty store
AppStores ==
    { Db(MsgPool, { Cmj(1, 1), Cmj(1, 3), Cmj(1, 4), Cmj(2, 2), Cmj(2, 5), Cmj(2, 6) }),
      Db({}, {}) }

(***************************************************************************)
(* State<T> and Handle<T> (main.rs 49-74)                                  *)
(***************************************************************************)
Empty == [tag |-> "Empty"]
Fetching == [tag |-> "Fetching"]
Ready(v) == [tag |-> "Ready", val |-> v]

Handles == { "chats", "selected_chat_messages" }

\* who holds a Mutex
Free == [free |-> TRUE]
Main == [thread |-> "main"]
Task(t) == [task |-> t]

Slot(h) == IF h = "chats" THEN chats ELSE selected_chat_messages

\* self.lock.lock().unwrap(): returns once the mutex is free
Lock(h, who) ==
    /\ lock[h] = Free
    /\ lock' = [lock EXCEPT ![h] = who]

\* the MutexGuard is dropped
Unlock(h, who) ==
    /\ lock[h] = who
    /\ lock' = [lock EXCEPT ![h] = Free]

\* `*guard = state` through the guard, which is then dropped (end of Handle::set)
StoreAndUnlock(h, who, state) ==
    /\ Unlock(h, who)
    /\ IF h = "chats"
       THEN chats' = state /\ UNCHANGED selected_chat_messages
       ELSE selected_chat_messages' = state /\ UNCHANGED chats

\* Handle::new and MyEguiApp::new (main.rs 61-65, 115-123): the state after
\* construction, main about to call initial_load
Blank == [tag |-> "blank"]
Frame0 == [call |-> None, chats |-> <<>>, i |-> 0, clicked |-> FALSE,
           left |-> Blank, right |-> Blank]

AppInit ==
    /\ chats = Empty
    /\ selected_chat = None
    /\ selected_chat_messages = Empty
    /\ lock = [h \in Handles |-> Free]
    /\ tasks = <<>>
    /\ pc = "main"
    /\ frame = Frame0
    /\ stderr = <<>>
    /\ history = <<>>

(***************************************************************************)
(* The futures handed to load, and what they resolve to.                   *)
(***************************************************************************)
OpConversations == [kind |-> "list_conversations"]
OpMessages(chat_id) == [kind |-> "list_messages", chat_id |-> chat_id]

Ok(v) == [tag |-> "Ok", val |-> v]
Err(e) == [tag |-> "Err", err |-> e]
Pending == [tag |-> "Pending"]

\* the store cannot be read (I/O, a missing table, a locked file)
StoreError == "error returned from database"

\* f.await: the query's rows mapped and collected, or the error `?` propagates
\* from fetch_all (the store cannot be read, or a row does not decode)
Outcomes(db, op) ==
    { Ok(v) : v \in IF op.kind = "list_conversations"
                    THEN list_conversations(db)
                    ELSE list_messages(db, op.chat_id) }
    \cup { Err(StoreError) }
    \cup IF op.kind = "list_messages" /\ ~MessageRowsDecode(db, op.chat_id)
         THEN { Err(DecodeError.err) } ELSE {}

(***************************************************************************)
(* MyEguiApp::load and the task it spawns (main.rs 125-137)                *)
(***************************************************************************)
\* the variables of the other specifications, and the store, which nothing writes
others == <<store, qin, qout, raw_in, dt_out>>

SetFrame(f) == frame' = f

\* history: load stored Fetching for the task it spawns next (the t-th), and
\* task t ended
Marked(t) == [ev |-> "marked", task |-> t]
Ended(t) == [ev |-> "ended", task |-> t]

\* a caller on the main thread enters load(handle, f)
Call(handle, op, ret) == [handle |-> handle, op |-> op, ret |-> ret]

\* a main that runs the application without calling initial_load
InitialLoadSkipped ==
    /\ pc = "main"
    /\ pc' = "idle"
    /\ UNCHANGED others
    /\ UNCHANGED <<chats, selected_chat, selected_chat_messages, lock, tasks,
                   frame, stderr, history>>

\* main.rs 38, 178-181: main calls app.initial_load(), which calls load
InitialLoad ==
    /\ pc = "main"
    /\ pc' = "load_lock"
    /\ SetFrame([frame EXCEPT !.call = Some(Call("chats", OpConversations, "idle"))])
    /\ UNCHANGED others
    /\ UNCHANGED <<chats, selected_chat, selected_chat_messages, lock, tasks,
                   stderr, history>>

\* main.rs 129, 68: handle.set(State::Fetching) takes the mutex
LoadLock ==
    /\ pc = "load_lock"
    /\ Lock(frame.call[1].handle, Main)
    /\ pc' = "load_store"
    /\ UNCHANGED others
    /\ UNCHANGED <<chats, selected_chat, selected_chat_messages, tasks, frame,
                   stderr, history>>

\* load without its first line: the mutex is taken and released, nothing stored
LoadStoreUnmarked ==
    /\ pc = "load_store"
    /\ Unlock(frame.call[1].handle, Main)
    /\ pc' = "load_spawn"
    /\ history' = Append(history, Marked(Len(tasks) + 1))
    /\ UNCHANGED others
    /\ UNCHANGED <<chats, selected_chat, selected_chat_messages, tasks, frame, stderr>>

\* main.rs 129, 68: ... stores Fetching and releases the mutex
LoadStore ==
    /\ pc = "load_store"
    /\ StoreAndUnlock(frame.call[1].handle, Main, Fetching)
    /\ pc' = "load_spawn"
    /\ history' = Append(history, Marked(Len(tasks) + 1))
    /\ UNCHANGED others
    /\ UNCHANGED <<selected_chat, tasks, frame, stderr>>

\* main.rs 131: self.rt.spawn(...), and load returns to its caller
LoadSpawn ==
    /\ pc = "load_spawn"
    /\ tasks' = Append(tasks, [handle |-> frame.call[1].handle, op |-> frame.call[1].op,
                               pc |-> "awaiting", result |-> Pending])
    /\ pc' = frame.call[1].ret
    /\ SetFrame([frame EXCEPT !.call = None])
    /\ UNCHANGED others
    /\ UNCHANGED <<chats, selected_chat, selected_chat_messages, lock, stderr, history>>

\* main.rs 132: f.await resolves on a worker thread
TaskResolve(t) ==
    /\ tasks[t].pc = "awaiting"
    /\ \E r \in Outcomes(store, tasks[t].op) :
          tasks' = [tasks EXCEPT ![t].pc = "resolved", ![t].result = r]
    /\ UNCHANGED others
    /\ UNCHANGED <<chats, selected_chat, selected_chat_messages, lock, pc, frame,
                   stderr, history>>

\* a task that takes the mutex before it awaits its query
TaskSetLockBeforeAwait(t) ==
    \/ /\ tasks[t].pc = "awaiting"
       /\ Lock(tasks[t].handle, Task(t))
       /\ UNCHANGED others
       /\ UNCHANGED <<chats, selected_chat, selected_chat_messages, tasks, pc, frame,
                      stderr, history>>
    \/ /\ tasks[t].pc = "resolved"
       /\ tasks[t].result.tag = "Ok"
       /\ lock[tasks[t].handle] = Task(t)
       /\ tasks' = [tasks EXCEPT ![t].pc = "setting"]
       /\ UNCHANGED others
       /\ UNCHANGED <<chats, selected_chat, selected_chat_messages, lock, pc, frame,
                      stderr, history>>

\* a task that uses try_lock and gives its value up when the mutex is held
TaskSetLockTry(t) ==
    /\ tasks[t].pc = "resolved"
    /\ tasks[t].result.tag = "Ok"
    /\ IF lock[tasks[t].handle] = Free
       THEN /\ lock' = [lock EXCEPT ![tasks[t].handle] = Task(t)]
            /\ tasks' = [tasks EXCEPT ![t].pc = "setting"]
            /\ UNCHANGED history
       ELSE /\ tasks' = [tasks EXCEPT ![t].pc = "done"]
            /\ history' = Append(history, Ended(t))
            /\ UNCHANGED lock
    /\ UNCHANGED others
    /\ UNCHANGED <<chats, selected_chat, selected_chat_messages, pc, frame, stderr>>

\* main.rs 133, 68: Ok(val) => handle.set(State::Ready(val)) takes the mutex
TaskSetLock(t) ==
    /\ tasks[t].pc = "resolved"
    /\ tasks[t].result.tag = "Ok"
    /\ Lock(tasks[t].handle, Task(t))
    /\ tasks' = [tasks EXCEPT ![t].pc = "setting"]
    /\ UNCHANGED others
    /\ UNCHANGED <<chats, selected_chat, selected_chat_messages, pc, frame,
                   stderr, history>>

\* a task that drops its value when a newer load into its slot was spawned
TaskSetStoreIfNewest(t) ==
    /\ tasks[t].pc = "setting"
    /\ IF \E u \in DOMAIN tasks : u > t /\ tasks[u].handle = tasks[t].handle
       THEN Unlock(tasks[t].handle, Task(t)) /\ UNCHANGED <<chats, selected_chat_messages>>
       ELSE StoreAndUnlock(tasks[t].handle, Task(t), Ready(tasks[t].result.val))
    /\ tasks' = [tasks EXCEPT ![t].pc = "done"]
    /\ history' = Append(history, Ended(t))
    /\ UNCHANGED others
    /\ UNCHANGED <<selected_chat, pc, frame, stderr>>

\* main.rs 133, 68: ... stores Ready(val) and releases the mutex; the task ends
TaskSetStore(t) ==
    /\ tasks[t].pc = "setting"
    /\ StoreAndUnlock(tasks[t].handle, Task(t), Ready(tasks[t].result.val))
    /\ tasks' = [tasks EXCEPT ![t].pc = "done"]
    /\ history' = Append(history, Ended(t))
    /\ UNCHANGED others
    /\ UNCHANGED <<selected_chat, pc, frame, stderr>>

\* a task that swallows the error
TaskErrSilent(t) ==
    /\ tasks[t].pc = "resolved"
    /\ tasks[t].result.tag = "Err"
    /\ tasks' = [tasks EXCEPT ![t].pc = "done"]
    /\ history' = Append(history, Ended(t))
    /\ UNCHANGED others
    /\ UNCHANGED <<chats, selected_chat, selected_chat_messages, lock, pc, frame, stderr>>

\* a task that resets its slot when its query fails
TaskErrClears(t) ==
    /\ tasks[t].pc = "resolved"
    /\ tasks[t].result.tag = "Err"
    /\ lock[tasks[t].handle] = Free
    /\ IF tasks[t].handle = "chats"
       THEN chats' = Empty /\ UNCHANGED selected_chat_messages
       ELSE selected_chat_messages' = Empty /\ UNCHANGED chats
    /\ stderr' = Append(stderr, tasks[t].result.err)
    /\ tasks' = [tasks EXCEPT ![t].pc = "done"]
    /\ history' = Append(history, Ended(t))
    /\ UNCHANGED others
    /\ UNCHANGED <<selected_chat, lock, pc, frame>>

\* a task that shows an empty list when its query fails
TaskErrStoresEmptyList(t) ==
    /\ tasks[t].pc = "resolved"
    /\ tasks[t].result.tag = "Err"
    /\ lock[tasks[t].handle] = Free
    /\ IF tasks[t].handle = "chats"
       THEN chats' = Ready(<<>>) /\ UNCHANGED selected_chat_messages
       ELSE selected_chat_messages' = Ready(<<>>) /\ UNCHANGED chats
    /\ stderr' = Append(stderr, tasks[t].result.err)
    /\ tasks' = [tasks EXCEPT ![t].pc = "done"]
    /\ history' = Append(history, Ended(t))
    /\ UNCHANGED others
    /\ UNCHANGED <<selected_chat, lock, pc, frame>>

\* main.rs 134: Err(e) => eprintln!("{e}"); the task ends
TaskErr(t) ==
    /\ tasks[t].pc = "resolved"
    /\ tasks[t].result.tag = "Err"
    /\ stderr' = Append(stderr, tasks[t].result.err)
    /\ tasks' = [tasks EXCEPT ![t].pc = "done"]
    /\ history' = Append(history, Ended(t))
    /\ UNCHANGED others
    /\ UNCHANGED <<chats, selected_chat, selected_chat_messages, lock, pc, frame>>

(***************************************************************************)
(* eframe::App::update (main.rs 209-270): one refresh pass                 *)
(***************************************************************************)
Heading(text) == [tag |-> "heading", text |-> text]

\* main.rs 210-212: a pass begins; the left panel takes the conversation
\* slot's guard
UpdateBegin ==
    /\ pc = "idle"
    /\ Lock("chats", Main)
    /\ pc' = "left_match"
    /\ SetFrame([Frame0 EXCEPT !.left = Blank, !.right = Blank])
    /\ UNCHANGED others
    /\ UNCHANGED <<chats, selected_chat, selected_chat_messages, tasks, stderr, history>>

\* a left panel that keeps the conversation slot's guard while it draws the rows
LeftMatchKeepsGuard ==
    /\ pc = "left_match"
    /\ IF chats.tag = "Ready"
       THEN /\ pc' = "rows"
            /\ SetFrame([frame EXCEPT !.chats = chats.val, !.i = 1,
                                      !.left = [tag |-> "rows", rows |-> <<>>]])
            /\ UNCHANGED lock
       ELSE /\ pc' = "central"
            /\ Unlock("chats", Main)
            /\ SetFrame([frame EXCEPT !.left =
                            IF chats.tag = "Empty" THEN Heading("no chats found")
                                                   ELSE Heading("loading...")])
    /\ UNCHANGED others
    /\ UNCHANGED <<chats, selected_chat, selected_chat_messages, tasks, stderr, history>>

\* main.rs 214-223: match &*guard
LeftMatch ==
    /\ pc = "left_match"
    /\ Unlock("chats", Main)
    /\ IF chats.tag = "Ready"
       THEN /\ pc' = "rows"
            /\ SetFrame([frame EXCEPT !.chats = chats.val, !.i = 1,
                                      !.left = [tag |-> "rows", rows |-> <<>>]])
       ELSE /\ pc' = "central"
            /\ SetFrame([frame EXCEPT !.left =
                            IF chats.tag = "Empty" THEN Heading("no chats found")
                                                   ELSE Heading("loading...")])
    /\ UNCHANGED others
    /\ UNCHANGED <<chats, selected_chat, selected_chat_messages, tasks, stderr, history>>

\* main.rs 226-240: the row of frame.chats[frame.i], filled when it is the selection
RowView(chat) ==
    [name |-> chat.name, last_active |-> chat.last_active,
     selected |-> selected_chat # None /\ selected_chat[1].name = chat.name]

AddRow(chat) == [tag |-> "rows", rows |-> Append(frame.left.rows, RowView(chat))]

\* main.rs 225-245: a row is drawn and was not clicked
RowShown ==
    /\ pc = "rows"
    /\ frame.i <= Len(frame.chats)
    /\ SetFrame([frame EXCEPT !.left = AddRow(frame.chats[frame.i]), !.i = frame.i + 1])
    /\ UNCHANGED others
    /\ UNCHANGED <<chats, selected_chat, selected_chat_messages, lock, tasks, pc,
                   stderr, history>>

\* a click that toggles: on the selected row it clears the selection and
\* starts no load
RowClickedToggles ==
    /\ pc = "rows"
    /\ frame.i <= Len(frame.chats)
    /\ ~frame.clicked
    /\ Len(tasks) < 1 + MaxClicks
    /\ IF selected_chat # None /\ selected_chat[1].name = frame.chats[frame.i].name
       THEN /\ selected_chat' = None
            /\ UNCHANGED pc
            /\ SetFrame([frame EXCEPT
                           !.left = AddRow(frame.chats[frame.i]), !.i = frame.i + 1,
                           !.clicked = TRUE])
       ELSE /\ selected_chat' = Some(frame.chats[frame.i])
            /\ pc' = "load_lock"
            /\ SetFrame([frame EXCEPT
                           !.left = AddRow(frame.chats[frame.i]), !.i = frame.i + 1,
                           !.clicked = TRUE,
                           !.call = Some(Call("selected_chat_messages",
                                              OpMessages(frame.chats[frame.i].name), "rows"))])
    /\ UNCHANGED others
    /\ UNCHANGED <<chats, selected_chat_messages, lock, tasks, stderr, history>>

\* main.rs 242-245, 139-142: a row is drawn and was clicked (one pointer: at
\* most one row a pass); the selection is set and load_messages calls load
RowClicked ==
    /\ pc = "rows"
    /\ frame.i <= Len(frame.chats)
    /\ ~frame.clicked
    /\ Len(tasks) < 1 + MaxClicks
    /\ selected_chat' = Some(frame.chats[frame.i])
    /\ pc' = "load_lock"
    /\ SetFrame([frame EXCEPT
                   !.left = AddRow(frame.chats[frame.i]), !.i = frame.i + 1,
                   !.clicked = TRUE,
                   !.call = Some(Call("selected_chat_messages",
                                      OpMessages(frame.chats[frame.i].name), "rows"))])
    /\ UNCHANGED others
    /\ UNCHANGED <<chats, selected_chat_messages, lock, tasks, stderr, history>>

\* main.rs 246-250: the loop over the rows ends, and the left panel with it
RowsEnd ==
    /\ pc = "rows"
    /\ frame.i > Len(frame.chats)
    /\ pc' = "central"
    /\ SetFrame([frame EXCEPT !.chats = <<>>, !.i = 0])
    /\ UNCHANGED others
    /\ UNCHANGED <<chats, selected_chat, selected_chat_messages, lock, tasks,
                   stderr, history>>

\* main.rs 265-267: no selection: the prompt, and the pass ends
CentralPrompt ==
    /\ pc = "central"
    /\ selected_chat = None
    /\ pc' = "idle"
    /\ SetFrame([frame EXCEPT !.right = Heading("select a chat on the left")])
    /\ UNCHANGED others
    /\ UNCHANGED <<chats, selected_chat, selected_chat_messages, lock, tasks,
                   stderr, history>>

\* main.rs 253-256: a selection: the central panel takes the message slot's guard
CentralGet ==
    /\ pc = "central"
    /\ selected_chat # None
    /\ Lock("selected_chat_messages", Main)
    /\ pc' = "central_match"
    /\ UNCHANGED others
    /\ UNCHANGED <<chats, selected_chat, selected_chat_messages, tasks, frame,
                   stderr, history>>

\* a central panel that takes the messages out of the slot to draw them
CentralMatchTaking ==
    /\ pc = "central_match"
    /\ Unlock("selected_chat_messages", Main)
    /\ pc' = "idle"
    /\ SetFrame([frame EXCEPT !.right =
                    [chat |-> selected_chat[1].name,
                     body |-> IF selected_chat_messages.tag = "Empty"
                                THEN Heading("no messages found")
                              ELSE IF selected_chat_messages.tag = "Fetching"
                                THEN Heading("loading...")
                              ELSE [tag |-> "messages",
                                    messages |-> selected_chat_messages.val]]])
    /\ selected_chat_messages' =
          IF selected_chat_messages.tag = "Ready" THEN Empty ELSE selected_chat_messages
    /\ UNCHANGED others
    /\ UNCHANGED <<chats, selected_chat, tasks, stderr, history>>

\* main.rs 256-264: match on the guarded state; the guard is dropped after the
\* match, and the pass ends
CentralMatch ==
    /\ pc = "central_match"
    /\ Unlock("selected_chat_messages", Main)
    /\ pc' = "idle"
    /\ SetFrame([frame EXCEPT !.right =
                    [chat |-> selected_chat[1].name,
                     body |-> IF selected_chat_messages.tag = "Empty"
                                THEN Heading("no messages found")
                              ELSE IF selected_chat_messages.tag = "Fetching"
                                THEN Heading("loading...")
                              ELSE [tag |-> "messages",
                                    messages |-> selected_chat_messages.val]]])
    /\ UNCHANGED others
    /\ UNCHANGED <<chats, selected_chat, selected_chat_messages, tasks, stderr, history>>

(***************************************************************************)
(* Spec: the application                                                   *)
(***************************************************************************)
NoQuery == [kind |-> "none"]

Init ==
    /\ store \in AppStores
    /\ AppInit
    /\ qin = NoQuery /\ qout = Pending
    /\ raw_in = I64(FALSE, 0, 0, 0) /\ dt_out = None

Next ==
    \/ InitialLoad
    \/ LoadLock
    \/ LoadStore
    \/ LoadSpawn
    \/ UpdateBegin
    \/ LeftMatch
    \/ RowShown
    \/ RowClicked
    \/ RowsEnd
    \/ CentralPrompt
    \/ CentralGet
    \/ CentralMatch
    \/ \E t \in DOMAIN tasks : TaskResolve(t)
    \/ \E t \in DOMAIN tasks : TaskSetLock(t)
    \/ \E t \in DOMAIN tasks : TaskSetStore(t)
    \/ \E t \in DOMAIN tasks : TaskErr(t)

Spec == Init /\ [][Next]_vars

(***************************************************************************)
(* SpecLive: the application under fair scheduling.  The main thread keeps  *)
(* running whatever it has begun (main, a pass, a call of load); a new pass *)
(* begins only when the toolkit asks for one.  The runtime's worker threads *)
(* run every spawned task (main.rs 31-33, 131), and a task that waits for a *)
(* mutex gets it when the mutex is free again and again.                    *)
(***************************************************************************)
MainRuns ==
    \/ InitialLoad \/ LoadLock \/ LoadStore \/ LoadSpawn
    \/ LeftMatch \/ RowShown \/ RowClicked \/ RowsEnd
    \/ CentralPrompt \/ CentralGet \/ CentralMatch

TaskIds == 1 .. (1 + MaxClicks)

TaskRuns(t) ==
    /\ t \in DOMAIN tasks
    /\ (TaskResolve(t) \/ TaskSetStore(t) \/ TaskErr(t))

TaskLocks(t) == t \in DOMAIN tasks /\ TaskSetLock(t)

Fairness ==
    /\ WF_vars(MainRuns)
    /\ \A t \in TaskIds : WF_vars(TaskRuns(t)) /\ SF_vars(TaskLocks(t))

SpecLive == Init /\ [][Next]_vars /\ Fairness

(***************************************************************************)
(* SpecQuery: the two queries on every store of QueryStores                *)
(***************************************************************************)
InitQuery ==
    /\ store \in QueryStores
    /\ AppInit
    /\ qin = NoQuery /\ qout = Pending
    /\ raw_in = I64(FALSE, 0, 0, 0) /\ dt_out = None

\* the future of initial_load (main.rs 181-205) runs to its end
RunListConversations ==
    /\ qin = NoQuery
    /\ qin' = OpConversations
    /\ qout' \in Outcomes(store, OpConversations)
    /\ UNCHANGED <<store, raw_in, dt_out>>
    /\ UNCHANGED appvars

\* the future of load_messages(chat_id) (main.rs 142-175) runs to its end
RunListMessages ==
    /\ qin = NoQuery
    /\ \E chat_id \in ChatIds :
          /\ qin' = OpMessages(chat_id)
          /\ qout' \in Outcomes(store, OpMessages(chat_id))
    /\ UNCHANGED <<store, raw_in, dt_out>>
    /\ UNCHANGED appvars

NextQuery ==
    \/ RunListConversations
    \/ RunListMessages

SpecQuery == InitQuery /\ [][NextQuery]_vars

(***************************************************************************)
(* SpecTime: time on raw values around every boundary of the computation   *)
(***************************************************************************)
\* limb values: the ends, the carry of + epoch_correction (10^9 - 978307200),
\* the sign change of - q + epoch_correction, the limbs of i64::MAX
MidSamples ==
    { 0, 1, 21692799, 21692800, 21692801, 223372036, 223372037, 700000000,
      978307199, 978307200, 978307201, 999999999 }

LoSamples == { 0, 1, 500000000, 854775807, 854775808, 999999999 }

RawInputs ==
    { r \in [neg : BOOLEAN, hi : {0, 1, I64MaxHi}, mid : MidSamples, lo : LoSamples] :
        InI64(r) }

InitTime ==
    /\ store = Db({}, {})
    /\ AppInit
    /\ qin = NoQuery /\ qout = Pending
    /\ raw_in \in RawInputs /\ dt_out = None

\* time(raw_in) is called
ApplyTime ==
    /\ dt_out = None
    /\ dt_out' = Some(time(raw_in))
    /\ UNCHANGED <<store, qin, qout, raw_in>>
    /\ UNCHANGED appvars

NextTime == ApplyTime

SpecTime == InitTime /\ [][NextTime]_vars

(***************************************************************************)
(* Properties                                                              *)
(***************************************************************************)

\* a <= b on DateTime<Utc>
DateLeq(a, b) ==
    /\ SecsLeq(a.secs, b.secs)
    /\ (a.secs = b.secs => a.nanos <= b.nanos)

\* seconds between 1970-01-01T00:00:00Z and 2001-01-01T00:00:00Z
RefEpochOffset == 978307200

\* s - RefEpochOffset on second counts
RefSinceCustomEpoch(s) ==
    IF s.neg
    THEN (IF s.lo + RefEpochOffset >= Billion
          THEN Secs(TRUE, s.hi + 1, (s.lo + RefEpochOffset) - Billion)
          ELSE Secs(TRUE, s.hi, s.lo + RefEpochOffset))
    ELSE IF s.lo >= RefEpochOffset THEN Secs(FALSE, s.hi, s.lo - RefEpochOffset)
    ELSE IF s.hi > 0 THEN Secs(FALSE, s.hi - 1, (s.lo + Billion) - RefEpochOffset)
    ELSE Secs(TRUE, 0, RefEpochOffset - s.lo)

\* q is raw / 10^9 truncated toward zero: raw = q * 10^9 + r with |r| < 10^9
\* and r zero or of raw's sign, i.e. q has raw's upper limbs and, unless it is
\* zero, raw's sign
RefIsTruncatedQuotient(raw, q) ==
    /\ q.hi = raw.hi /\ q.lo = raw.mid
    /\ q.neg = (raw.neg /\ ~(q.hi = 0 /\ q.lo = 0))

\* C10: for every raw i64, time(raw) does not panic, has a zero sub-second
\* part, and its second count less 978307200 is raw / 1,000,000,000 truncated
\* toward zero (for negative raw too).
Thm_C10_TimeTruncatesAndOffsets ==
    dt_out # None =>
        /\ InI64(raw_in)
        /\ dt_out[1] # Panic
        /\ dt_out[1].nanos = 0
        /\ RefIsTruncatedQuotient(raw_in, RefSinceCustomEpoch(dt_out[1].secs))

\* time was applied to i64::MIN, a negative value with a sub-second part
Wit_C10_TimeOfI64Min ==
    /\ dt_out # None
    /\ raw_in = I64(TRUE, I64MaxHi, I64MaxMid, I64MaxLo + 1)

\* the store's messages joined to the conversation of this identifier
RefMessagesOf(name) ==
    { m \in store.message :
        \E c \in store.chat, j \in store.chat_message_join :
            /\ j.message_id = m.ROWID /\ j.chat_id = c.ROWID
            /\ c.chat_identifier = name }

\* C6: the list list_conversations produces is sorted by last_active
\* non-increasing, names no conversation twice, and gives each conversation
\* the greatest normalized timestamp of its messages as last_active.
Thm_C6_ConversationsSortedUniqueMax ==
    (qin = OpConversations /\ qout.tag = "Ok") =>
        LET L == qout.val
        IN  /\ \A i, j \in DOMAIN L : i < j => DateLeq(L[j].last_active, L[i].last_active)
            /\ \A i, j \in DOMAIN L : i # j => L[i].name # L[j].name
            /\ \A i \in DOMAIN L :
                  /\ \E m \in RefMessagesOf(L[i].name) : time(m.date) = L[i].last_active
                  /\ \A m \in RefMessagesOf(L[i].name) : DateLeq(time(m.date), L[i].last_active)

\* two conversations were listed, the first of them with several messages of
\* different dates, joined through two chat rows of the same identifier
Wit_C6_TwoConversations ==
    /\ qin = OpConversations /\ qout.tag = "Ok"
    /\ Len(qout.val) = 2
    /\ Cardinality({ m.date : m \in RefMessagesOf(qout.val[1].name) }) >= 2
    /\ Cardinality({ j.chat_id : j \in store.chat_message_join }) = 3

\* the (message, chat row) pairs the query of load_messages joins for this identifier
RefJoinedTo(name) ==
    { p \in store.message \X store.chat :
        /\ p[2].chat_identifier = name
        /\ \E j \in store.chat_message_join :
              j.message_id = p[1].ROWID /\ j.chat_id = p[2].ROWID }

\* C7: the list list_messages produces holds one entry for every message
\* joined to the conversation (a message joined through two chat rows of the
\* identifier twice) and no other, ordered by normalized date non-decreasing.
Thm_C7_MessagesCompleteAndAscending ==
    (qin.kind = "list_messages" /\ qout.tag = "Ok") =>
        LET L == qout.val
            J == RefJoinedTo(qin.chat_id)
        IN  /\ \A i, j \in DOMAIN L : i < j => DateLeq(L[i].date, L[j].date)
            /\ Len(L) = Cardinality(J)
            /\ \E f \in [DOMAIN L -> J] :
                  /\ \A i, j \in DOMAIN L : i # j => f[i] # f[j]
                  /\ \A i \in DOMAIN L :
                        /\ L[i].date = time(f[i][1].date)
                        /\ L[i].text = (IF f[i][1].text = NULL THEN "" ELSE f[i][1].text[1])

\* a conversation of two messages of different seconds was listed while the
\* store joins another message to another conversation
Wit_C7_TwoMessagesOtherChat ==
    /\ qin.kind = "list_messages" /\ qout.tag = "Ok"
    /\ Len(qout.val) = 2
    /\ qout.val[1].date # qout.val[2].date
    /\ \E j \in store.chat_message_join, c \in store.chat :
          j.chat_id = c.ROWID /\ c.chat_identifier # qin.chat_id

\* positions in history
Pos(e) == CHOOSE i \in DOMAIN history : history[i] = e

\* the slot task u writes (u may be marked and not yet spawned)
HandleOfTask(u) == IF u \in DOMAIN tasks THEN tasks[u].handle ELSE frame.call[1].handle

\* task u has stored Ready(its value) and ended
StoredOk(u) ==
    u \in DOMAIN tasks /\ tasks[u].pc = "done" /\ tasks[u].result.tag = "Ok"

\* the i-th event of history wrote slot h (a load's Fetching, a task's Ready)
WroteAt(i, h) ==
    /\ HandleOfTask(history[i].task) = h
    /\ (history[i].ev = "marked" \/ StoredOk(history[i].task))

\* the main thread holds h's guard, returned by Handle::get
GetObserves(h) ==
    \/ h = "chats" /\ pc = "left_match"
    \/ h = "selected_chat_messages" /\ pc = "central_match"

\* C1, as amended: after load(slot, op) has returned, the slot is Fetching
\* until a load into that slot (this one or an overlapping one) stores its
\* value; after op has resolved successfully and its value is stored, the slot
\* is Ready with exactly the value op produced until the next load into that
\* slot marks it or another one stores its value.
Thm_C1_FetchingThenReadyUntilNextWrite ==
    \A t \in DOMAIN tasks :
        LET h == tasks[t].handle
        IN  /\ (~\E u \in DOMAIN tasks :
                    /\ tasks[u].handle = h /\ StoredOk(u)
                    /\ Pos(Ended(u)) > Pos(Marked(t)))
                  => Slot(h) = Fetching
            /\ (StoredOk(t) /\ ~\E i \in DOMAIN history :
                                    i > Pos(Ended(t)) /\ WroteAt(i, h))
                  => /\ Slot(h) = Ready(tasks[t].result.val)
                     /\ tasks[t].result \in Outcomes(store, tasks[t].op)

\* the central panel reads the message slot Fetching while a message load
\* awaits its query, and the conversation slot holds the initial load's value
Wit_C1_FetchingObservedThenReady ==
    /\ pc = "central_match"
    /\ selected_chat_messages = Fetching
    /\ \E t \in DOMAIN tasks :
          tasks[t].handle = "selected_chat_messages" /\ tasks[t].pc = "awaiting"
    /\ StoredOk(1) /\ chats = Ready(tasks[1].result.val)
    /\ Len(chats.val) = 2

\* C1, as stated: every get between load's return and op's resolution
\* observes Fetching, and every get after op's value is stored observes Ready
\* with that value.
Cex_C1_EveryGetSeesThisLoad ==
    \A t \in DOMAIN tasks :
        GetObserves(tasks[t].handle) =>
            /\ tasks[t].pc = "awaiting" => Slot(tasks[t].handle) = Fetching
            /\ StoredOk(t) => Slot(tasks[t].handle) = Ready(tasks[t].result.val)

\* no load into h is in flight, and the main thread is not inside load
Quiescent(h) ==
    /\ frame.call = None
    /\ \A t \in DOMAIN tasks : tasks[t].handle = h => tasks[t].pc = "done"

\* b was spawned while a was in flight
Overlap(a, b) == a < b /\ Pos(Marked(b)) < Pos(Ended(a))

\* the task on h that stored its value last
LastStored(h) ==
    CHOOSE t \in DOMAIN tasks :
        /\ tasks[t].handle = h /\ StoredOk(t)
        /\ \A u \in DOMAIN tasks :
              (tasks[u].handle = h /\ StoredOk(u)) => Pos(Ended(u)) <= Pos(Ended(t))

\* C2: when message loads overlapped and all resolved successfully, the
\* message slot, once none is in flight, is Ready with the value of the load
\* that completed last, whichever was started last.
Thm_C2_LastCompletedWins ==
    LET h == "selected_chat_messages"
        M == { t \in DOMAIN tasks : tasks[t].handle = h }
    IN  (/\ Quiescent(h)
         /\ \A t \in M : StoredOk(t)
         /\ \E a, b \in M : Overlap(a, b))
        => selected_chat_messages = Ready(tasks[LastStored(h)].result.val)

\* a was selected, then b while a's load was in flight; b's load completed
\* first and a's last: the slot holds a's messages while b is selected
Wit_C2_StaleLoadWins ==
    /\ Quiescent("selected_chat_messages")
    /\ Len(tasks) = 3 /\ StoredOk(2) /\ StoredOk(3)
    /\ Overlap(2, 3)
    /\ Pos(Ended(3)) < Pos(Ended(2))
    /\ tasks[2].op.chat_id # tasks[3].op.chat_id
    /\ tasks[2].result.val # tasks[3].result.val
    /\ selected_chat[1].name = tasks[3].op.chat_id
    /\ selected_chat_messages = Ready(tasks[2].result.val)

\* the failure of task t is the last thing that happened to the slots
JustFailed(t) ==
    /\ tasks[t].pc = "done" /\ tasks[t].result.tag = "Err"
    /\ history[Len(history)] = Ended(t)

\* the errors of the tasks that ended in failure, in the order they ended
FailuresLogged ==
    LET F == SelectSeq(history, LAMBDA e : e.ev = "ended" /\ tasks[e.task].result.tag = "Err")
    IN  stderr = [i \in DOMAIN F |-> tasks[F[i].task].result.err]

\* C3, as amended: when a load's operation resolves with an error, the error
\* is logged and the slot is left as it was: Fetching, unless a load into the
\* same slot has stored its value since the slot was last marked Fetching, and
\* then Ready with the value stored last.
Thm_C3_FailureLoggedSlotLeft ==
    \A t \in DOMAIN tasks :
        JustFailed(t) =>
            LET h == tasks[t].handle
                lastmark == CHOOSE i \in DOMAIN history :
                               /\ history[i].ev = "marked" /\ HandleOfTask(history[i].task) = h
                               /\ \A j \in DOMAIN history :
                                     (history[j].ev = "marked" /\ HandleOfTask(history[j].task) = h)
                                         => j <= i
                since == { u \in DOMAIN tasks :
                             tasks[u].handle = h /\ StoredOk(u) /\ Pos(Ended(u)) > lastmark }
            IN  /\ FailuresLogged
                /\ Len(stderr) >= 1 /\ stderr[Len(stderr)] = tasks[t].result.err
                /\ IF since = {} THEN Slot(h) = Fetching
                   ELSE Slot(h) = Ready(tasks[LastStored(h)].result.val)

\* a message load has just failed, with its slot still Fetching
Wit_C3_FailedWhileFetching ==
    \E t \in DOMAIN tasks :
        /\ JustFailed(t)
        /\ tasks[t].handle = "selected_chat_messages"
        /\ selected_chat_messages = Fetching
        /\ stderr # <<>>

\* C3, as stated: once a load's failure has been handled, the error is logged
\* and the slot the load targets is Fetching.
Cex_C3_FailureLeavesFetching ==
    \A t \in DOMAIN tasks :
        JustFailed(t) =>
            /\ stderr # <<>> /\ stderr[Len(stderr)] = tasks[t].result.err
            /\ Slot(tasks[t].handle) = Fetching

\* C4, as stated: whenever the message slot is Ready, it holds the result of
\* list_messages for the selected conversation.  Stated for the states in
\* which the main thread is not inside load_messages (where the selection is
\* already the clicked row and the slot not yet marked).
Cex_C4_ReadyMessagesOfSelection ==
    (frame.call = None /\ selected_chat_messages.tag = "Ready") =>
        /\ selected_chat # None
        /\ selected_chat_messages.val \in list_messages(store, selected_chat[1].name)

\* what frees each mutex is a step of its holder alone: the holder is the
\* main thread between a lock and the matching unlock, or a task inside set
HeldInsideGetOrSet(h) ==
    \/ lock[h] = Free
    \/ /\ lock[h] = Main
       /\ \/ pc = "load_store" /\ frame.call[1].handle = h
          \/ GetObserves(h)
    \/ \E t \in DOMAIN tasks :
          lock[h] = Task(t) /\ tasks[t].handle = h /\ tasks[t].pc = "setting"

\* the lock the main thread is about to take, if any
MainWants(h) ==
    \/ pc = "load_lock" /\ frame.call[1].handle = h
    \/ pc = "idle" /\ h = "chats"
    \/ pc = "central" /\ selected_chat # None /\ h = "selected_chat_messages"

\* C5: a slot's lock is held only inside one get or one set, never by a task
\* that awaits its query; so whenever the main thread has to wait for a lock,
\* the holder is a task between the two halves of set, which releases it by
\* its own next step, whatever the loads in flight do.
Thm_C5_PassNeverWaitsForLoad ==
    \A h \in Handles :
        /\ HeldInsideGetOrSet(h)
        /\ \A t \in DOMAIN tasks : tasks[t].pc = "awaiting" => lock[h] # Task(t)
        /\ (MainWants(h) /\ lock[h] # Free) =>
              \E t \in DOMAIN tasks : lock[h] = Task(t) /\ tasks[t].pc = "setting"

\* the pass is at the central panel's get while a task is inside set on the
\* message slot and another message load still awaits its query
Wit_C5_PassMeetsWriter ==
    /\ pc = "central" /\ selected_chat # None
    /\ \E t, u \in DOMAIN tasks :
          /\ lock["selected_chat_messages"] = Task(t)
          /\ tasks[u].handle = "selected_chat_messages" /\ tasks[u].pc = "awaiting"

\* the rows of load_messages' query for the conversation of task t
RowsOfTask(t) == RefJoinedTo(tasks[t].op.chat_id)

\* the task's failure, if it failed, is the store's: no row made it fail
OnlyStoreFails(t) ==
    tasks[t].result.tag = "Err" => tasks[t].result.err = StoreError

\* task t has just stored its value: the message slot is Ready with it
JustStored(t) == StoredOk(t) /\ history[Len(history)] = Ended(t)

RefText(m) == IF m.text = NULL THEN "" ELSE m.text[1]

\* the handle row the left join finds for m, if any
RefHandles(m) == { h \in store.handle : m.handle_id = <<h.ROWID>> }

\* C8: a row with is_from_me = true becomes a message of sender Me whatever
\* its handle_id (NULL, dangling, resolvable); the load holding it fails only
\* when the store does, and on success stores Ready with these messages.
Thm_C8_FromMeIsMe ==
    \A t \in DOMAIN tasks :
        (/\ tasks[t].op.kind = "list_messages"
         /\ \E p \in RowsOfTask(t) : p[1].is_from_me)
        => /\ OnlyStoreFails(t)
           /\ tasks[t].result.tag = "Ok" =>
                 LET L == tasks[t].result.val
                 IN  /\ \A p \in RowsOfTask(t) :
                           p[1].is_from_me =>
                               \E i \in DOMAIN L :
                                   /\ L[i].sender = [tag |-> "Me"]
                                   /\ L[i].text = RefText(p[1])
                                   /\ L[i].date = time(p[1].date)
                     /\ Cardinality({ i \in DOMAIN L : L[i].sender = [tag |-> "Me"] })
                           = Cardinality({ p \in RowsOfTask(t) : p[1].is_from_me })
           /\ JustStored(t) =>
                 selected_chat_messages = Ready(tasks[t].result.val)

\* a load of a conversation with from-me rows of NULL, dangling and resolvable
\* handle_id has just stored three messages, all of sender Me
Wit_C8_FromMeLoaded ==
    \E t \in DOMAIN tasks :
        /\ tasks[t].op.kind = "list_messages" /\ JustStored(t)
        /\ \E p, q, r \in RowsOfTask(t) :
              /\ p[1].is_from_me /\ p[1].handle_id = NULL
              /\ q[1].is_from_me /\ q[1].handle_id # NULL /\ RefHandles(q[1]) = {}
              /\ r[1].is_from_me /\ RefHandles(r[1]) # {}
        /\ selected_chat_messages.tag = "Ready"
        /\ Len(selected_chat_messages.val) = 3
        /\ \A i \in 1..3 : selected_chat_messages.val[i].sender = [tag |-> "Me"]

\* the identifier of a counterpart the join does not resolve
Placeholder == ""

\* C9: a row with is_from_me = false whose handle the left join does not
\* resolve (handle_id NULL or dangling) becomes a message of sender
\* SomeoneElse carrying the placeholder; the load holding it fails only when
\* the store does, and on success stores Ready with these messages.
Thm_C9_UnresolvedHandleIsPlaceholder ==
    \A t \in DOMAIN tasks :
        LET U == { p \in RowsOfTask(t) : ~p[1].is_from_me /\ RefHandles(p[1]) = {} }
        IN  (tasks[t].op.kind = "list_messages" /\ U # {})
            => /\ OnlyStoreFails(t)
               /\ tasks[t].result.tag = "Ok" =>
                     LET L == tasks[t].result.val
                         ph == [tag |-> "SomeoneElse", id |-> Placeholder]
                     IN  /\ \A p \in U :
                               \E i \in DOMAIN L :
                                   /\ L[i].sender = ph
                                   /\ L[i].text = RefText(p[1])
                                   /\ L[i].date = time(p[1].date)
                         /\ Cardinality({ i \in DOMAIN L : L[i].sender = ph }) = Cardinality(U)
               /\ JustStored(t) =>
                     selected_chat_messages = Ready(tasks[t].result.val)

\* a load of a conversation with rows of the other party, one of NULL and one
\* of dangling handle_id, has just stored its messages, two with the placeholder
Wit_C9_UnresolvedLoaded ==
    \E t \in DOMAIN tasks :
        /\ tasks[t].op.kind = "list_messages" /\ JustStored(t)
        /\ \E p, q \in RowsOfTask(t) :
              /\ ~p[1].is_from_me /\ p[1].handle_id = NULL
              /\ ~q[1].is_from_me /\ q[1].handle_id # NULL /\ RefHandles(q[1]) = {}
        /\ selected_chat_messages.tag = "Ready"
        /\ Cardinality({ i \in DOMAIN selected_chat_messages.val :
                           selected_chat_messages.val[i].sender
                               = [tag |-> "SomeoneElse", id |-> Placeholder] }) = 2

\* the task that is storing its value into slot h
Storing(h) == CHOOSE t \in DOMAIN tasks : lock[h] = Task(t) /\ tasks[t].pc = "setting"

\* a load into t's slot has stored its value since t's load marked the slot
StoredSinceMarked(t) ==
    \E u \in DOMAIN tasks :
        /\ tasks[u].handle = tasks[t].handle /\ StoredOk(u)
        /\ Pos(Ended(u)) > Pos(Marked(t))

\* C11, as amended: a slot changes to Fetching only from Empty or Ready, and
\* never changes back to Empty; it changes to Ready from Fetching, or from
\* Ready when the load that stores overlapped a load into the same slot that
\* has stored since the storing load marked the slot.
Thm_C11_SlotTransitions ==
    [][\A h \in Handles :
          Slot(h)' # Slot(h) =>
              /\ Slot(h)' # Empty
              /\ Slot(h)' = Fetching => Slot(h).tag \in { "Empty", "Ready" }
              /\ Slot(h)'.tag = "Ready" =>
                    \/ Slot(h) = Fetching
                    \/ Slot(h).tag = "Ready" /\ StoredSinceMarked(Storing(h))]_vars

\* the message slot has gone Empty, Fetching, Ready, Fetching, Ready: the
\* second message load was started after the first had stored
Wit_C11_TwoFullCycles ==
    /\ Len(tasks) = 3 /\ StoredOk(2) /\ StoredOk(3)
    /\ Pos(Ended(2)) < Pos(Marked(3))
    /\ tasks[2].result.val # tasks[3].result.val
    /\ selected_chat_messages = Ready(tasks[3].result.val)

\* C11, as stated: a slot changes to Fetching only from Empty or Ready,
\* changes to Ready only from Fetching, and never changes back to Empty.
Cex_C11_ReadyOnlyFromFetching ==
    [][\A h \in Handles :
          Slot(h)' # Slot(h) =>
              \/ Slot(h)' = Fetching /\ Slot(h).tag \in { "Empty", "Ready" }
              \/ Slot(h)'.tag = "Ready" /\ Slot(h) = Fetching]_vars

\* a step in which task t handles the failure of its operation
HandlesFailure(t) ==
    /\ tasks[t].pc = "resolved" /\ tasks[t].result.tag = "Err"
    /\ tasks'[t].pc = "done"

\* C12: the step in which a load handles the failure of its operation leaves
\* the slot it targets, the other slot and the selection as they were (and
\* the locks, and the loads in flight).
Thm_C12_FailureChangesNothing ==
    [][\A t \in DOMAIN tasks :
          HandlesFailure(t) =>
              /\ UNCHANGED <<chats, selected_chat, selected_chat_messages, lock>>
              /\ \A u \in DOMAIN tasks : u # t => tasks'[u] = tasks[u]
              /\ tasks'[t].result = tasks[t].result]_vars

\* a message load has just failed with a conversation selected, the
\* conversation slot Ready, and the message slot Ready with the value of an
\* overlapping load
Wit_C12_FailedBesideReady ==
    \E t \in DOMAIN tasks :
        /\ JustFailed(t)
        /\ tasks[t].handle = "selected_chat_messages"
        /\ chats.tag = "Ready" /\ selected_chat # None
        /\ selected_chat_messages.tag = "Ready"
        /\ selected_chat_messages.val # <<>>

\* the name of the conversation selected before the click of the pass that
\* has just ended: the one the message load before the last was started for
SelectedBeforeClick ==
    IF Len(tasks) <= 2 THEN None ELSE Some(tasks[Len(tasks) - 1].op.chat_id)

\* C13, as stated: a pass in which a row was clicked renders the state as it
\* was before the click: every row is filled exactly when it is the
\* conversation selected before the click, and the central panel shows that
\* conversation, or the prompt when none was selected.
Cex_C13_PassRendersStateBeforeClick ==
    (pc = "idle" /\ frame.clicked) =>
        /\ \A i \in DOMAIN frame.left.rows :
              frame.left.rows[i].selected <=>
                  SelectedBeforeClick = Some(frame.left.rows[i].name)
        /\ IF SelectedBeforeClick = None
           THEN frame.right = Heading("select a chat on the left")
           ELSE /\ "chat" \in DOMAIN frame.right
                /\ frame.right.chat = SelectedBeforeClick[1]

\* where the main thread is during a refresh pass, outside load
PassPcs == { "idle", "left_match", "rows", "central", "central_match" }

\* a step of the main thread
MainStep == pc' # pc \/ frame' # frame

\* C14: a step of a refresh pass other than a row click, in a pass with no
\* click so far, leaves the conversation slot, the message slot and the
\* selection unchanged, and starts no load: no call of load is entered and no
\* task is spawned.
Thm_C14_PassWithoutClickOnlyReads ==
    [][(MainStep /\ pc \in PassPcs /\ ~frame'.clicked) =>
          /\ UNCHANGED <<chats, selected_chat, selected_chat_messages>>
          /\ UNCHANGED <<tasks, stderr, history>>
          /\ frame'.call = None /\ pc' \in PassPcs]_vars

\* a pass without a click has ended, having drawn two conversation rows and
\* the messages of the selection
Wit_C14_PassDrewAndChangedNothing ==
    /\ pc = "idle" /\ ~frame.clicked
    /\ frame.left.tag = "rows" /\ Len(frame.left.rows) = 2
    /\ "body" \in DOMAIN frame.right
    /\ frame.right.body.tag = "messages"
    /\ selected_chat_messages = Ready(frame.right.body.messages)

\* the threads inside a get or a set of slot h: past its lock(), before the
\* guard is dropped
InsideGetOrSet(h) ==
    (IF (pc = "load_store" /\ frame.call[1].handle = h) \/ GetObserves(h)
     THEN { Main } ELSE {})
    \cup { Task(t) : t \in { u \in DOMAIN tasks :
                                tasks[u].handle = h /\ tasks[u].pc = "setting" } }

\* the threads about to call lock() on slot h
AboutToLock(h) ==
    (IF MainWants(h) THEN { Main } ELSE {})
    \cup { Task(t) : t \in { u \in DOMAIN tasks :
                                /\ tasks[u].handle = h /\ tasks[u].pc = "resolved"
                                /\ tasks[u].result.tag = "Ok" } }

\* C15: at most one thread is inside a get or set of a slot, and it is the
\* holder of the slot's lock; a thread that holds or is about to take one
\* slot's lock holds no other (the main thread has dropped the conversation
\* slot's guard when a click starts a message load); the holder of a lock can
\* always take the step that releases it, so some step is always possible.
Thm_C15_ExclusiveIndependentLocks ==
    /\ \A h \in Handles :
          /\ Cardinality(InsideGetOrSet(h)) <= 1
          /\ InsideGetOrSet(h) = IF lock[h] = Free THEN {} ELSE { lock[h] }
          /\ \A g \in Handles \ { h } :
                \A w \in InsideGetOrSet(h) \cup AboutToLock(h) : lock[g] # w
          /\ lock[h] = Main => ENABLED (LoadStore \/ LeftMatch \/ CentralMatch)
          /\ \A t \in DOMAIN tasks : lock[h] = Task(t) => ENABLED TaskSetStore(t)
    /\ ENABLED Next

\* a click has started a message load: the main thread is inside set on the
\* message slot with the conversation slot's lock free, while a task waits to
\* store into the message slot
Wit_C15_ClickLocksMessageSlotOnly ==
    /\ pc = "load_store" /\ frame.call[1].handle = "selected_chat_messages"
    /\ lock["selected_chat_messages"] = Main
    /\ lock["chats"] = Free
    /\ \E t \in DOMAIN tasks :
          /\ tasks[t].handle = "selected_chat_messages"
          /\ tasks[t].pc = "resolved" /\ tasks[t].result.tag = "Ok"

\* the main thread is inside the click handler, between the assignment of the
\* selection (main.rs 243) and the store of Fetching (main.rs 129)
InsideClickBeforeMark ==
    /\ pc \in { "load_lock", "load_store" }
    /\ frame.call[1].handle = "selected_chat_messages"

ConversationLoads ==
    { i \in DOMAIN history :
        history[i].ev = "marked" /\ HandleOfTask(history[i].task) = "chats" }

\* C17: the conversation slot is loaded once, by the first load, before any
\* pass: a pass never reads it Empty nor draws "no chats found", every load
\* after the first goes into the message slot, and once the slot is Ready its
\* value never changes.
Thm_C17_ConversationsLoadedOnce ==
    /\ [](/\ pc \in PassPcs => (chats # Empty /\ ConversationLoads = { 1 })
          /\ frame.left # Heading("no chats found")
          /\ \A t \in DOMAIN tasks : tasks[t].handle = "chats" <=> t = 1)
    /\ [][chats.tag = "Ready" => chats' = chats]_vars

\* a pass reads the conversation slot after two message loads were started:
\* it still holds the two conversations the initial load stored
Wit_C17_ConversationsKeptAfterLoads ==
    /\ pc = "left_match"
    /\ Len(tasks) = 3
    /\ StoredOk(1) /\ chats = Ready(tasks[1].result.val)
    /\ Len(chats.val) = 2

\* the initial load has failed
InitialLoadFailed == Len(tasks) >= 1 /\ tasks[1].result.tag = "Err"

\* C18: once the initial load has failed, in every state the conversation
\* slot is Fetching, nothing is selected, the message slot is Empty, and no
\* load but the initial one was ever started; a pass draws "loading..." and
\* the prompt.
Thm_C18_FailedInitialLoadSticks ==
    /\ [](InitialLoadFailed =>
            /\ chats = Fetching
            /\ selected_chat = None
            /\ selected_chat_messages = Empty
            /\ Len(tasks) = 1 /\ frame.call = None
            /\ pc \in PassPcs \ { "rows", "central_match" }
            /\ frame.left \in { Blank, Heading("loading...") }
            /\ frame.right \in { Blank, Heading("select a chat on the left") })
    /\ [][InitialLoadFailed => InitialLoadFailed']_vars

\* the initial load has failed and was logged; a pass has ended that drew
\* "loading..." and the prompt, on a store that holds two conversations
Wit_C18_LoadingForever ==
    /\ InitialLoadFailed /\ tasks[1].pc = "done"
    /\ stderr = <<tasks[1].result.err>>
    /\ pc = "idle"
    /\ frame.left = Heading("loading...")
    /\ frame.right = Heading("select a chat on the left")
    /\ store.chat # {}

\* no load's operation has resolved with an error
NoFailure == \A t \in DOMAIN tasks : tasks[t].result.tag # "Err"

\* a load into slot h has marked it
Started(h) ==
    \E i \in DOMAIN history :
        history[i].ev = "marked" /\ HandleOfTask(history[i].task) = h

\* C19: under fair scheduling, when no load's operation ever fails (and the
\* selections are finitely many: at most MaxClicks), every slot on which a
\* load was started is eventually Ready for good.  A failure, once it has
\* happened, and a start, once made, stay in every later state, so the
\* behaviours the claim is about are those that do not end up with a failure
\* and do end up with the slot started.
Thm_C19_StartedSlotsEndReady ==
    /\ [][/\ ~NoFailure => ~NoFailure'
          /\ \A h \in Handles : Started(h) => Started(h)']_vars
    /\ \A h \in Handles :
          <>[](~NoFailure \/ ~Started(h) \/ Slot(h).tag = "Ready")

\* all the loads have stored, three of them, two overlapping; both slots are
\* Ready
Wit_C19_AllLoadsStored ==
    /\ Len(tasks) = 3 /\ \A t \in DOMAIN tasks : StoredOk(t)
    /\ Overlap(2, 3)
    /\ frame.call = None
    /\ chats.tag = "Ready" /\ selected_chat_messages.tag = "Ready"

=============================================================================
